---- MODULE Spec2Model ----
(***************************************************************************)
(* Metasino: the table contract of src/lib.rs (an ink! smart contract).    *)
(* The storage struct Metasino is the state; the constructor `new` gives   *)
(* the initial states and each #[ink(message)] that takes &mut self is one *)
(* action.  A message that panics aborts the call: the struct it mutated   *)
(* is never written back to storage.                                       *)
(***************************************************************************)
EXTENDS Integers, Sequences, FiniteSets, TLC

\* ------------------------------------------------------------ constants
\* const MAX_PLAYERS: u8 = 10;  const MIN_PLAYERS: u8 = 3;
MAX_PLAYERS == 10
MIN_PLAYERS == 3

\* ------------------------------------------------------------ bounds
\* Number of caller identities of the general specification.
NumAccounts == 4
\* Largest bet a caller passes to `new` (0 is passed too, and rejected).
MaxBet == 2
\* Registrations are explored while the pot stays within MaxPot.
MaxPot == 7

Accounts == 1..NumAccounts
\* Enough identities to fill a table and leave one outside it.
FullAccounts == 1..(MAX_PLAYERS + 1)
\* Bets passed to register_player: below, at and above the required one.
StartBets == 0..(MaxBet + 1)
\* Pot cap of the full-table specification: room for MAX_PLAYERS stakes.
FullMaxPot == MaxBet * MAX_PLAYERS + MaxPot

\* enum STATE
STAGING == "STAGING"
PLAYING == "PLAYING"
ENDED == "ENDED"

\* Outcome of a call: Ok, or the message of the panic! that aborted it.
Ok == "Ok"
PanicInvalidBet == "Required start bet must be greater than 0"
PanicNotAuthorized == "Only the initializer can terminate the game"
PanicTableFull == "Max players reached"
PanicBetMismatch == "start Bet value requires at exact {}"
PanicDuplicate == "Player already registered"
PanicMinPlayers == "Minimum {} players required to start the game"
PanicOngoing == "Game is ongoing!!"
PanicEnded == "Game has already has ended"

VARIABLES
    deployed,            \* TRUE iff `new` returned a contract
    initializer,         \* Metasino.initializer
    players,             \* Metasino.players (Vec<AccountId>)
    required_start_bet,  \* Metasino.required_start_bet
    pot,                 \* Metasino.pot
    state,               \* Metasino.state
    last                 \* the last call: its name, caller, argument, outcome
                         \* and the players, pot and state it started from

vars == <<deployed, initializer, players, required_start_bet, pot, state, last>>

\* The storage struct as one value.
Self ==
    [initializer |-> initializer, players |-> players,
     required_start_bet |-> required_start_bet, pot |-> pot, state |-> state]

\* What the variables hold when `new` panicked and no contract exists.
NoContract ==
    [initializer |-> 0, players |-> <<>>,
     required_start_bet |-> 0, pot |-> 0, state |-> "NONE"]

\* A call returns normally with the struct it leaves, or panics with it.
Return(self) == [result |-> Ok, self |-> self]
Panic(msg, self) == [result |-> msg, self |-> self]

\* Vec::contains
Contains(seq, x) == \E i \in 1..Len(seq) : seq[i] = x

\* ------------------------------------------------------------ the contract

\* new that leaves the initiator's stake out of the pot.
new_empty_pot(caller, bet) ==
    IF bet <= 0
    THEN Panic(PanicInvalidBet, NoContract)
    ELSE Return([initializer |-> caller,
                 required_start_bet |-> bet,
                 players |-> <<caller>>,
                 pot |-> 0,
                 state |-> STAGING])

\* new that only rejects a negative bet.
new_accepts_zero(caller, bet) ==
    IF bet < 0
    THEN Panic(PanicInvalidBet, NoContract)
    ELSE Return([initializer |-> caller,
                 required_start_bet |-> bet,
                 players |-> <<caller>>,
                 pot |-> bet,
                 state |-> STAGING])

\* pub fn new(required_start_bet: Balance) -> Self
new(caller, bet) ==
    IF bet <= 0
    THEN Panic(PanicInvalidBet, NoContract)
    ELSE Return([initializer |-> caller,
                 required_start_bet |-> bet,
                 players |-> <<caller>>,
                 pot |-> bet,
                 state |-> STAGING])

\* pub fn get_players(&self) -> Vec<AccountId>
get_players(self) == self.players

\* pub fn get_players_count(&self) -> u8   (players.len() as u8)
get_players_count(self) == Len(self.players) % 256

\* A guard that lets a PLAYING table through.
table_status_guard_ended_only(self) ==
    IF self.state = ENDED THEN PanicEnded ELSE Ok

\* fn table_status_guard(&self): the panic it raises, or Ok
table_status_guard(self) ==
    IF self.state = PLAYING THEN PanicOngoing
    ELSE IF self.state = ENDED THEN PanicEnded
    ELSE Ok

\* terminate as a reset of the table, whatever its state.
terminate_reopens(self, caller) ==
    IF Contains(get_players(self), caller)
    THEN Panic(PanicNotAuthorized, self)
    ELSE Return([self EXCEPT !.players = <<>>, !.state = STAGING])

\* terminate with the authorization its message announces.
terminate_initializer_only(self, caller) ==
    IF table_status_guard(self) # Ok
    THEN Panic(table_status_guard(self), self)
    ELSE IF caller # self.initializer
    THEN Panic(PanicNotAuthorized, self)
    ELSE Return([self EXCEPT !.players = <<>>])

\* terminate that also closes the table and empties the pot.
terminate_ends(self, caller) ==
    IF table_status_guard(self) # Ok
    THEN Panic(table_status_guard(self), self)
    ELSE IF Contains(get_players(self), caller)
    THEN Panic(PanicNotAuthorized, self)
    ELSE Return([self EXCEPT !.players = <<>>, !.pot = 0, !.state = ENDED])

\* terminate that closes the table.
terminate_closes(self, caller) ==
    IF table_status_guard(self) # Ok
    THEN Panic(table_status_guard(self), self)
    ELSE IF Contains(get_players(self), caller)
    THEN Panic(PanicNotAuthorized, self)
    ELSE Return([self EXCEPT !.players = <<>>, !.state = ENDED])

\* terminate that hands the table over to its caller.
terminate_takes_over(self, caller) ==
    IF table_status_guard(self) # Ok
    THEN Panic(table_status_guard(self), self)
    ELSE IF Contains(get_players(self), caller)
    THEN Panic(PanicNotAuthorized, self)
    ELSE Return([self EXCEPT !.players = <<>>, !.initializer = caller])

\* terminate that gives the stakes back.
terminate_refunds(self, caller) ==
    IF table_status_guard(self) # Ok
    THEN Panic(table_status_guard(self), self)
    ELSE IF Contains(get_players(self), caller)
    THEN Panic(PanicNotAuthorized, self)
    ELSE Return([self EXCEPT !.players = <<>>, !.pot = 0])

\* pub fn terminate(&mut self)
terminate(self, caller) ==
    IF table_status_guard(self) # Ok
    THEN Panic(table_status_guard(self), self)
    ELSE IF Contains(get_players(self), caller)
    THEN Panic(PanicNotAuthorized, self)
    ELSE Return([self EXCEPT !.players = <<>>])

\* register_player with the bet compared before the capacity.
register_player_bet_first(self, caller, start_bet) ==
    IF table_status_guard(self) # Ok
    THEN Panic(table_status_guard(self), self)
    ELSE IF start_bet # self.required_start_bet
    THEN Panic(PanicBetMismatch, self)
    ELSE IF get_players_count(self) >= MAX_PLAYERS
    THEN Panic(PanicTableFull, self)
    ELSE LET paid == [self EXCEPT !.pot = @ + start_bet]
         IN  IF ~Contains(paid.players, caller)
             THEN Return([paid EXCEPT !.players = Append(@, caller)])
             ELSE Panic(PanicDuplicate, paid)

\* register_player that pushes the caller without looking for it.
register_player_no_duplicate_check(self, caller, start_bet) ==
    IF table_status_guard(self) # Ok
    THEN Panic(table_status_guard(self), self)
    ELSE IF get_players_count(self) >= MAX_PLAYERS
    THEN Panic(PanicTableFull, self)
    ELSE IF start_bet # self.required_start_bet
    THEN Panic(PanicBetMismatch, self)
    ELSE Return([self EXCEPT !.pot = @ + start_bet,
                             !.players = Append(@, caller)])

\* register_player that puts the newcomer at the head of the list.
register_player_prepends(self, caller, start_bet) ==
    IF table_status_guard(self) # Ok
    THEN Panic(table_status_guard(self), self)
    ELSE IF get_players_count(self) >= MAX_PLAYERS
    THEN Panic(PanicTableFull, self)
    ELSE IF start_bet # self.required_start_bet
    THEN Panic(PanicBetMismatch, self)
    ELSE LET paid == [self EXCEPT !.pot = @ + start_bet]
         IN  IF ~Contains(paid.players, caller)
             THEN Return([paid EXCEPT !.players = <<caller>> \o @])
             ELSE Panic(PanicDuplicate, paid)

\* register_player that assigns the bet to the pot instead of adding it.
register_player_sets_pot(self, caller, start_bet) ==
    IF table_status_guard(self) # Ok
    THEN Panic(table_status_guard(self), self)
    ELSE IF get_players_count(self) >= MAX_PLAYERS
    THEN Panic(PanicTableFull, self)
    ELSE IF start_bet # self.required_start_bet
    THEN Panic(PanicBetMismatch, self)
    ELSE LET paid == [self EXCEPT !.pot = start_bet]
         IN  IF ~Contains(paid.players, caller)
             THEN Return([paid EXCEPT !.players = Append(@, caller)])
             ELSE Panic(PanicDuplicate, paid)

\* pub fn register_player(&mut self, start_bet: Balance)
\* The pot is increased before the caller is looked up in players, so the
\* struct a duplicate registration panics with already holds the larger pot.
register_player(self, caller, start_bet) ==
    IF table_status_guard(self) # Ok
    THEN Panic(table_status_guard(self), self)
    ELSE IF get_players_count(self) >= MAX_PLAYERS
    THEN Panic(PanicTableFull, self)
    ELSE IF start_bet # self.required_start_bet
    THEN Panic(PanicBetMismatch, self)
    ELSE LET paid == [self EXCEPT !.pot = @ + start_bet]
         IN  IF ~Contains(paid.players, caller)
             THEN Return([paid EXCEPT !.players = Append(@, caller)])
             ELSE Panic(PanicDuplicate, paid)

\* start_game that asks for more than MIN_PLAYERS players.
start_game_off_by_one(self) ==
    IF table_status_guard(self) # Ok
    THEN Panic(table_status_guard(self), self)
    ELSE IF get_players_count(self) <= MIN_PLAYERS
    THEN Panic(PanicMinPlayers, self)
    ELSE Return([self EXCEPT !.state = PLAYING])

\* start_game without the quorum.
start_game_no_quorum(self) ==
    IF table_status_guard(self) # Ok
    THEN Panic(table_status_guard(self), self)
    ELSE Return([self EXCEPT !.state = PLAYING])

\* pub fn start_game(&mut self)
start_game(self) ==
    IF table_status_guard(self) # Ok
    THEN Panic(table_status_guard(self), self)
    ELSE IF get_players_count(self) < MIN_PLAYERS
    THEN Panic(PanicMinPlayers, self)
    ELSE Return([self EXCEPT !.state = PLAYING])

\* A dispatch that stores the struct even when the message panicked.
CommitOnPanic(before, outcome) == outcome.self

\* #[ink(message)]: the struct is written back to storage when the message
\* returns; a panic! aborts the call and storage keeps the struct it held.
Commit(before, outcome) ==
    IF outcome.result = Ok THEN outcome.self ELSE before

Store(self) ==
    /\ initializer' = self.initializer
    /\ players' = self.players
    /\ required_start_bet' = self.required_start_bet
    /\ pot' = self.pot
    /\ state' = self.state

Called(op, caller, start_bet, outcome) ==
    last' = [op |-> op, caller |-> caller, start_bet |-> start_bet,
             result |-> outcome.result,
             pre_players |-> players, pre_pot |-> pot, pre_state |-> state]

\* ------------------------------------------------------------ behaviour

\* The constructor call that deploys the contract (or fails to).
Construct(caller, bet) ==
    LET outcome == new(caller, bet)
    IN  /\ deployed = (outcome.result = Ok)
        /\ initializer = outcome.self.initializer
        /\ players = outcome.self.players
        /\ required_start_bet = outcome.self.required_start_bet
        /\ pot = outcome.self.pot
        /\ state = outcome.self.state
        /\ last = [op |-> "new", caller |-> caller, start_bet |-> bet,
                   result |-> outcome.result,
                   pre_players |-> <<>>, pre_pot |-> 0, pre_state |-> "NONE"]

Init == \E caller \in Accounts, bet \in 0..MaxBet : Construct(caller, bet)

RegisterPlayer(caller, start_bet, cap) ==
    /\ deployed
    /\ pot + start_bet <= cap
    /\ LET outcome == register_player(Self, caller, start_bet)
       IN  /\ Store(Commit(Self, outcome))
           /\ Called("register_player", caller, start_bet, outcome)
    /\ UNCHANGED deployed

StartGame(caller) ==
    /\ deployed
    /\ LET outcome == start_game(Self)
       IN  /\ Store(Commit(Self, outcome))
           /\ Called("start_game", caller, 0, outcome)
    /\ UNCHANGED deployed

Terminate(caller) ==
    /\ deployed
    /\ LET outcome == terminate(Self, caller)
       IN  /\ Store(Commit(Self, outcome))
           /\ Called("terminate", caller, 0, outcome)
    /\ UNCHANGED deployed

Next ==
    \/ \E caller \in Accounts, start_bet \in StartBets :
          RegisterPlayer(caller, start_bet, MaxPot)
    \/ \E caller \in Accounts : StartGame(caller)
    \/ \E caller \in Accounts : Terminate(caller)

Spec == Init /\ [][Next]_vars

\* ---- the full-table specification ----
\* The contract only compares identities for equality, so every run is a
\* renaming of one in which newcomers arrive in increasing order: the callers
\* are the registered players and the least identity not at the table.
Fresh == CHOOSE a \in FullAccounts :
            /\ ~Contains(players, a)
            /\ \A b \in FullAccounts : ~Contains(players, b) => a <= b

FullCallers == {a \in FullAccounts : Contains(players, a)} \cup {Fresh}

InitFull == \E bet \in 1..MaxBet : Construct(1, bet)

NextFull ==
    \/ \E caller \in FullCallers, start_bet \in StartBets :
          RegisterPlayer(caller, start_bet, FullMaxPot)
    \/ \E caller \in FullCallers : StartGame(caller)
    \/ \E caller \in FullCallers : Terminate(caller)

SpecFull == InitFull /\ [][NextFull]_vars

\* ------------------------------------------------------------ properties

\* C1: in every state reachable after create, the pot equals the required
\* start bet times the number of players at the table.
C1_PotEqualsStakes ==
    deployed => pot = required_start_bet * Len(players)

\* C2: in every state reachable after create, the table has between 1 and
\* MAX_PLAYERS players and the required start bet is positive.
C2_PlayerCountInRange ==
    deployed => /\ 1 <= Len(players)
                /\ Len(players) <= MAX_PLAYERS
                /\ required_start_bet > 0

C4_FirstViolated ==
    IF last.pre_state # STAGING
    THEN (IF last.pre_state = PLAYING THEN PanicOngoing ELSE PanicEnded)
    ELSE IF Len(last.pre_players) >= 10 THEN PanicTableFull
    ELSE IF last.start_bet # required_start_bet THEN PanicBetMismatch
    ELSE IF Contains(last.pre_players, last.caller) THEN PanicDuplicate
    ELSE Ok

\* C4: a register_player call reports the first violated precondition in the
\* order state guard, capacity (TableFull), bet (BetMismatch), duplicate
\* caller (DuplicateRegistration), and succeeds when none is violated; on a
\* Staging table with 10 players it fails with TableFull whatever the bet
\* and the caller.
C4_FailureOrder ==
    last.op = "register_player" => last.result = C4_FirstViolated

\* A registered player has just offered a wrong bet to a full Staging table
\* and was told the table is full.
C4_Witness ==
    /\ last.op = "register_player"
    /\ state = STAGING
    /\ Len(players) = MAX_PLAYERS
    /\ last.start_bet # required_start_bet
    /\ Contains(players, last.caller)
    /\ last.result = PanicTableFull

\* C5: across every step the state stays the same or moves Staging ->
\* Playing, Playing -> Ended or Staging -> Ended; never backward.
C5_StateMovesForward ==
    [][\/ state' = state
       \/ state = STAGING /\ state' = PLAYING
       \/ state = PLAYING /\ state' = ENDED
       \/ state = STAGING /\ state' = ENDED]_vars

\* start_game has just moved the table from Staging to Playing.
C5_Witness ==
    /\ last.op = "start_game"
    /\ last.result = Ok
    /\ last.pre_state = STAGING
    /\ state = PLAYING

\* C6: once the state is Playing, every register_player, start_game and
\* terminate call is rejected by the state guard, before any other check,
\* and no field of the table changes any more.
C6_PlayingIsFrozen ==
    [][state = PLAYING
          => /\ last'.result = PanicOngoing
             /\ UNCHANGED <<players, pot, state, required_start_bet,
                            initializer>>]_vars

\* On a Playing table, a registered player's registration with a wrong bet
\* has just been rejected by the state guard.
C6_Witness ==
    /\ state = PLAYING
    /\ last.pre_state = PLAYING
    /\ last.op = "register_player"
    /\ last.start_bet # required_start_bet
    /\ Contains(players, last.caller)
    /\ last.result = PanicOngoing

\* C7: only the initializer can terminate: a terminate call succeeds only
\* when its caller is the identity that created the table.
C7_OnlyInitializerTerminates ==
    (last.op = "terminate" /\ last.result = Ok) => last.caller = initializer

C9_TerminateEffect ==
    [][(last'.op = "terminate" /\ last'.result = Ok)
          => /\ players' = <<>>
             /\ state' = STAGING
             /\ UNCHANGED <<pot, required_start_bet, initializer, state>>]_vars

\* terminate has just emptied a Staging table of several players, whose
\* stakes are still in the pot.
C9_Witness ==
    /\ last.op = "terminate"
    /\ last.result = Ok
    /\ Len(last.pre_players) >= 2
    /\ players = <<>>
    /\ pot >= 2 * required_start_bet
    /\ state = STAGING

\* C10: in every reachable state no identity occurs twice in players.
C10_NoDuplicatePlayers ==
    deployed => \A i, j \in 1..Len(players) :
                    players[i] = players[j] => i = j

\* A former player has registered again after a terminate (the pot holds
\* more than the stakes of the players now at the table).
C10_Witness ==
    /\ last.op = "register_player"
    /\ last.result = Ok
    /\ Len(players) >= 2
    /\ pot > required_start_bet * Len(players)

\* C11: in every reachable state the players are in registration order with
\* the initializer first: the first element of players is the identity that
\* created the table, and a successful registrant is placed after all the
\* players that were there.
C11_InitializerFirst ==
    deployed
        => /\ Len(players) >= 1
           /\ players[1] = initializer
           /\ (last.op = "register_player" /\ last.result = Ok)
                 => players = Append(last.pre_players, last.caller)

\* C12: on a Staging table start_game, by any caller, succeeds exactly when
\* there are at least 3 players, and then sets the state to Playing leaving
\* players and pot unchanged; with fewer it fails with InsufficientPlayers
\* and the state stays Staging.
C12_StartGameQuorum ==
    (last.op = "start_game" /\ last.pre_state = STAGING)
        => /\ players = last.pre_players
           /\ pot = last.pre_pot
           /\ IF Len(last.pre_players) >= 3
              THEN last.result = Ok /\ state = PLAYING
              ELSE last.result = PanicMinPlayers /\ state = STAGING

\* An identity that is not at the table has just started the game.
C12_Witness ==
    /\ last.op = "start_game"
    /\ last.result = Ok
    /\ ~Contains(players, last.caller)
    /\ last.caller # initializer
    /\ state = PLAYING

\* C13: a successful register_player(start_bet) increases the pot by exactly
\* start_bet, which is the required start bet, appends the caller at the end
\* of players, and leaves state, required start bet and initializer unchanged.
C13_RegisterEffect ==
    [][(last'.op = "register_player" /\ last'.result = Ok)
          => /\ pot' = pot + last'.start_bet
             /\ last'.start_bet = required_start_bet
             /\ players' = Append(players, last'.caller)
             /\ UNCHANGED <<state, required_start_bet, initializer>>]_vars

\* A third player has just been appended to a table of two.
C13_Witness ==
    /\ last.op = "register_player"
    /\ last.result = Ok
    /\ Len(last.pre_players) = 2
    /\ Len(players) = 3
    /\ players[3] = last.caller

\* C14: the Ended state is unreachable.
C14_EndedUnreachable ==
    state # ENDED

\* A table with players has just been terminated and is not Ended.
C14_Witness ==
    /\ last.op = "terminate"
    /\ last.result = Ok
    /\ last.pre_players # <<>>
    /\ state # ENDED

\* C15: for every required start bet > 0 and every caller, create yields a
\* table with players = [caller], initializer = caller, pot = the required
\* start bet and state Staging.
C15_CreateEffect ==
    (last.op = "new" /\ last.start_bet > 0)
        => /\ deployed
           /\ last.result = Ok
           /\ players = <<last.caller>>
           /\ initializer = last.caller
           /\ Len(players) = 1
           /\ required_start_bet = last.start_bet
           /\ pot = last.start_bet
           /\ state = STAGING

\* A table has just been created with a bet larger than 1.
C15_Witness ==
    /\ last.op = "new"
    /\ last.start_bet >= 2
    /\ deployed

\* C16: create with a required start bet <= 0 (0, the balance being
\* unsigned) fails with InvalidBetAmount and produces no table.
C16_CreateRejectsZeroBet ==
    (last.op = "new" /\ last.start_bet <= 0)
        => /\ ~deployed
           /\ last.result = PanicInvalidBet

\* create has just been called with a bet of 0.
C16_Witness ==
    /\ last.op = "new"
    /\ last.start_bet = 0
    /\ last.result = PanicInvalidBet

\* C17: initializer and required start bet never change after create.
C17_InitializerAndBetFixed ==
    [][UNCHANGED <<initializer, required_start_bet>>]_vars

\* The table has been emptied and filled again without its initializer,
\* who is still recorded as the initializer.
C17_Witness ==
    /\ deployed
    /\ Len(players) >= 1
    /\ ~Contains(players, initializer)
    /\ required_start_bet >= 1

\* C18: whenever the state is Playing the table has between MIN_PLAYERS (3)
\* and MAX_PLAYERS (10) players.
C18_PlayingHasQuorum ==
    state = PLAYING => (3 <= Len(players) /\ Len(players) <= 10)

\* A terminate by an identity outside the table has just been attempted on
\* a Playing table, which had been terminated and filled again before.
C18_Witness ==
    /\ state = PLAYING
    /\ last.op = "terminate"
    /\ ~Contains(players, last.caller)
    /\ last.result # Ok
    /\ pot > required_start_bet * Len(players)

\* C19: a successful terminate leaves the table Staging with no players; a
\* register_player with the exact bet on the emptied table then succeeds for
\* any identity and adds its stake on top of the pot the earlier players
\* left; and start_game succeeds again on a table of 3 players.
C19_TerminateDoesNotClose ==
    /\ (last.op = "terminate" /\ last.result = Ok)
          => (state = STAGING /\ players = <<>>)
    /\ (/\ last.op = "register_player"
        /\ last.pre_players = <<>>
        /\ last.start_bet = required_start_bet)
          => /\ last.result = Ok
             /\ players = <<last.caller>>
             /\ last.pre_pot >= required_start_bet
             /\ pot = last.pre_pot + required_start_bet
    /\ (/\ last.op = "start_game"
        /\ last.pre_state = STAGING
        /\ Len(last.pre_players) >= 3)
          => state = PLAYING

\* The game has just been started by players who registered after a
\* terminate, the initializer among them.
C19_Witness ==
    /\ last.op = "start_game"
    /\ last.result = Ok
    /\ state = PLAYING
    /\ Contains(players, initializer)
    /\ pot >= required_start_bet * (Len(players) + 1)

\* C20: the pot never decreases across a step, and in every reachable state
\* of the table it is a positive multiple of the required start bet and at
\* least the required start bet times the number of players.
C20_PotMonotone ==
    deployed
        => /\ pot >= last.pre_pot
           /\ pot > 0
           /\ pot % required_start_bet = 0
           /\ pot >= required_start_bet * Len(players)

\* A duplicate registration has just been rejected on a table whose pot
\* holds more than the stakes of its players.
C20_Witness ==
    /\ last.op = "register_player"
    /\ last.result = PanicDuplicate
    /\ Len(players) >= 1
    /\ pot > required_start_bet * Len(players)

====
